---------------------------- MODULE Spec2Model ----------------------------
(***************************************************************************)
(* A model of gemini_notion_app.py: the paginated fetcher, the property    *)
(* normalizer, the record parser, the three aggregation modes, the routes  *)
(* that call them and the intent detection of the chat route.              *)
(*                                                                         *)
(* Python values are modelled as tagged records, so that a slot that can   *)
(* hold None, a string, a list or a dict is always comparable:             *)
(*   None           [t |-> "null"]                                         *)
(*   a string       [t |-> "str",  v |-> "..."]                            *)
(*   a boolean      [t |-> "bool", v |-> TRUE]                             *)
(*   a list         [t |-> "list", v |-> << ... >>]                        *)
(*   a dict         [t |-> "dict", v |-> [key |-> value, ...]]             *)
(*   an ordered     [t |-> "odict", v |-> << <<key, value>>, ... >>]       *)
(*   dict           (used where iteration order is observable)             *)
(* A raised exception is the value Raise.                                  *)
(***************************************************************************)
EXTENDS Integers, Sequences, FiniteSets, TLC

\* ------------------------------------------------------------------------
\* Python values
\* ------------------------------------------------------------------------

None == [t |-> "null"]

Raise == [t |-> "raise"]

Str(s) == [t |-> "str", v |-> s]

Bool(b) == [t |-> "bool", v |-> b]

List(l) == [t |-> "list", v |-> l]

Dict(d) == [t |-> "dict", v |-> d]

ODict(d) == [t |-> "odict", v |-> d]

EmptyDict == Dict(<<>>)

\* Python truthiness, as used by `if x:` and `x if y else z`.
Truthy(x) ==
    CASE x.t = "null" -> FALSE
      [] x.t = "str" -> x.v # ""
      [] x.t = "bool" -> x.v
      [] x.t = "list" -> x.v # <<>>
      [] x.t = "dict" -> DOMAIN x.v # {}
      [] x.t = "odict" -> x.v # <<>>
      [] OTHER -> TRUE

\* dict.get(key, default) on the contents of a dict.
Get(d, key, default) == IF key \in DOMAIN d THEN d[key] ELSE default

\* The keys of an ordered dict, in iteration order.
Keys(od) == [i \in 1..Len(od) |-> od[i][1]]

\* dict.get(key, default) on the contents of an ordered dict.
OGet(od, key, default) ==
    IF \E i \in 1..Len(od) : od[i][1] = key
    THEN od[CHOOSE i \in 1..Len(od) : od[i][1] = key][2]
    ELSE default

\* ------------------------------------------------------------------------
\* Python strings (TLA+ strings; a character is a string of length 1)
\* ------------------------------------------------------------------------

\* The printable ASCII characters in code-point order: " " (32) to "_" (95)
\* and "a" (97) to "~" (126).
AsciiLow ==
    " !\"#$%&'()*+,-./0123456789:;<=>?@ABCDEFGHIJKLMNOPQRSTUVWXYZ[\\]^_"

AsciiHigh == "abcdefghijklmnopqrstuvwxyz{|}~"

CharAt(s, i) == SubSeq(s, i, i)

\* ord(c) of every printable ASCII character but the backquote.
OrdTable ==
    [c \in {CharAt(AsciiLow, i) : i \in 1..Len(AsciiLow)}
            \cup {CharAt(AsciiHigh, i) : i \in 1..Len(AsciiHigh)} |->
        IF \E i \in 1..Len(AsciiLow) : CharAt(AsciiLow, i) = c
        THEN 31 + (CHOOSE i \in 1..Len(AsciiLow) : CharAt(AsciiLow, i) = c)
        ELSE 96 + (CHOOSE i \in 1..Len(AsciiHigh) : CharAt(AsciiHigh, i) = c)]

Ord(c) == OrdTable[c]

Uppercase == "ABCDEFGHIJKLMNOPQRSTUVWXYZ"

Lowercase == "abcdefghijklmnopqrstuvwxyz"

LowerTable ==
    [c \in {CharAt(Uppercase, i) : i \in 1..Len(Uppercase)} |->
        CharAt(Lowercase, CHOOSE i \in 1..Len(Uppercase) : CharAt(Uppercase, i) = c)]

\* str.lower() on one character: "A".."Z" map to "a".."z".
LowerChar(c) == IF c \in DOMAIN LowerTable THEN LowerTable[c] ELSE c

RECURSIVE Lower(_)
Lower(s) == IF s = "" THEN "" ELSE LowerChar(Head(s)) \o Lower(Tail(s))

\* `needle in hay` for strings: substring containment.
Contains(needle, hay) ==
    \E i \in 0..(Len(hay) - Len(needle)) :
        SubSeq(hay, i + 1, i + Len(needle)) = needle

\* a < b for strings: lexicographic by code point.
RECURSIVE StrLess(_, _)
StrLess(a, b) ==
    IF b = "" THEN FALSE
    ELSE IF a = "" THEN TRUE
    ELSE IF Head(a) = Head(b) THEN StrLess(Tail(a), Tail(b))
    ELSE Ord(Head(a)) < Ord(Head(b))

\* a >= b for strings.
StrGE(a, b) == ~StrLess(a, b)

\* str.split(sep) for a one-character separator: "" gives [""].
RECURSIVE SplitFrom(_, _, _)
SplitFrom(s, sep, current) ==
    IF s = "" THEN <<current>>
    ELSE IF Head(s) = sep THEN <<current>> \o SplitFrom(Tail(s), sep, "")
    ELSE SplitFrom(Tail(s), sep, current \o Head(s))

Split(s, sep) == SplitFrom(s, sep, "")

\* str.split() with no argument: runs of whitespace separate the words and
\* no empty word is produced.
RECURSIVE WordsFrom(_, _)
WordsFrom(s, current) ==
    IF s = "" THEN (IF current = "" THEN <<>> ELSE <<current>>)
    ELSE IF Head(s) = " "
         THEN (IF current = "" THEN <<>> ELSE <<current>>) \o WordsFrom(Tail(s), "")
    ELSE WordsFrom(Tail(s), current \o Head(s))

Words(s) == WordsFrom(s, "")

\* str(n) for a natural number.
RECURSIVE Decimal(_)
Decimal(n) ==
    IF n < 10 THEN CharAt("0123456789", n + 1)
    ELSE Decimal(n \div 10) \o CharAt("0123456789", (n % 10) + 1)

\* n formatted with at least `width` digits, zero padded.
RECURSIVE ZeroPad(_, _)
ZeroPad(n, width) ==
    LET d == Decimal(n)
    IN IF Len(d) >= width THEN d
       ELSE "0" \o ZeroPad(n, width - 1)

\* ------------------------------------------------------------------------
\* json.dumps with the default separators
\* ------------------------------------------------------------------------

\* The characters json.dumps escapes inside a string literal.
EscapeChar(c) ==
    IF c = "\"" THEN "\\\"" ELSE IF c = "\\" THEN "\\\\" ELSE c

RECURSIVE Escape(_)
Escape(s) == IF s = "" THEN "" ELSE EscapeChar(Head(s)) \o Escape(Tail(s))

Quoted(s) == "\"" \o Escape(s) \o "\""

RECURSIVE Dumps(_)
RECURSIVE DumpsItems(_)
RECURSIVE DumpsPairs(_)
\* The items of a list, joined with ", ".
DumpsItems(items) ==
    IF items = <<>> THEN ""
    ELSE IF Len(items) = 1 THEN Dumps(Head(items))
    ELSE Dumps(Head(items)) \o ", " \o DumpsItems(Tail(items))

\* The "key": value pairs of a dict in insertion order, joined with ", ".
DumpsPairs(pairs) ==
    IF pairs = <<>> THEN ""
    ELSE LET one == Quoted(Head(pairs)[1]) \o ": " \o Dumps(Head(pairs)[2])
         IN IF Len(pairs) = 1 THEN one
            ELSE one \o ", " \o DumpsPairs(Tail(pairs))

Dumps(x) ==
    CASE x.t = "null" -> "null"
      [] x.t = "str" -> Quoted(x.v)
      [] x.t = "bool" -> (IF x.v THEN "true" ELSE "false")
      [] x.t = "list" -> "[" \o DumpsItems(x.v) \o "]"
      [] x.t = "odict" -> "{" \o DumpsPairs(x.v) \o "}"

\* ------------------------------------------------------------------------
\* Property Normalizer: get_property_value
\* ------------------------------------------------------------------------

\* item.get(field, "") for one element of a list comprehension; an element
\* that is not a dict has no .get and raises.
ItemGet(item, field) ==
    IF item.t = "dict" THEN Get(item.v, field, Str("")) ELSE Raise

\* " ".join(parts): every part must be a string.
RECURSIVE JoinSpace(_)
JoinSpace(parts) ==
    IF parts = <<>> THEN Str("")
    ELSE IF Head(parts).t # "str" THEN Raise
    ELSE IF Len(parts) = 1 THEN Head(parts)
    ELSE LET rest == JoinSpace(Tail(parts))
         IN IF rest.t = "raise" THEN Raise
            ELSE Str(Head(parts).v \o " " \o rest.v)

\* [item.get(field, "") for item in lst]: iterating None raises.
Comprehension(lst, field) ==
    IF lst.t # "list" THEN Raise
    ELSE LET items == [i \in 1..Len(lst.v) |-> ItemGet(lst.v[i], field)]
         IN IF \E i \in 1..Len(items) : items[i].t = "raise"
            THEN Raise ELSE List(items)

TitleValue(prop) ==
    LET title_list == Get(prop, "title", List(<<>>))
    IN IF ~Truthy(title_list) THEN Str("")
       ELSE IF title_list.t # "list" THEN Raise
       ELSE ItemGet(title_list.v[1], "plain_text")

RichTextValue(prop) ==
    LET parts == Comprehension(Get(prop, "rich_text", List(<<>>)), "plain_text")
    IN IF parts.t = "raise" THEN Raise ELSE JoinSpace(parts.v)

UrlValue(prop) == Get(prop, "url", Str(""))

DateValue(prop) ==
    LET date_obj == Get(prop, "date", EmptyDict)
    IN IF ~Truthy(date_obj) THEN Str("")
       ELSE ItemGet(date_obj, "start")

SelectValue(prop) ==
    LET select_obj == Get(prop, "select", EmptyDict)
    IN IF ~Truthy(select_obj) THEN Str("")
       ELSE ItemGet(select_obj, "name")

MultiSelectValue(prop) ==
    Comprehension(Get(prop, "multi_select", List(<<>>)), "name")

get_property_value(properties, property_name) ==
    LET prop == OGet(properties, property_name, EmptyDict)
    IN IF prop.t # "dict" THEN Raise
       ELSE LET prop_type == Get(prop.v, "type", None)
            IN IF ~Truthy(prop_type) THEN None
               ELSE IF prop_type = Str("title") THEN TitleValue(prop.v)
               ELSE IF prop_type = Str("rich_text") THEN RichTextValue(prop.v)
               ELSE IF prop_type = Str("url") THEN UrlValue(prop.v)
               ELSE IF prop_type = Str("date") THEN DateValue(prop.v)
               ELSE IF prop_type = Str("select") THEN SelectValue(prop.v)
               ELSE IF prop_type = Str("multi_select") THEN MultiSelectValue(prop.v)
               ELSE None

\* ------------------------------------------------------------------------
\* Record Parser: parse_notion_page
\* ------------------------------------------------------------------------

\* Faulty variant: if value is not None
KeepNotNone(value) == value.t # "null"

\* `if value:` decides whether the property is kept.
KeepValue(value) == Truthy(value)

\* The loop over properties.keys(): the entries kept so far, or Raise as
\* soon as one normalization raises.
RECURSIVE ParseProperties(_, _, _)
ParseProperties(properties, names, kept) ==
    IF names = <<>> THEN ODict(kept)
    ELSE LET value == get_property_value(properties, Head(names))
         IN IF value.t = "raise" THEN Raise
            ELSE ParseProperties(properties, Tail(names),
                     IF KeepValue(value)
                     THEN Append(kept, <<Head(names), value>>)
                     ELSE kept)

parse_notion_page(page) ==
    LET properties == Get(page, "properties", ODict(<<>>))
    IN IF properties.t # "odict" THEN Raise
       ELSE LET props == ParseProperties(properties.v, Keys(properties.v), <<>>)
            IN IF props.t = "raise" THEN Raise
               ELSE Dict([id |-> Get(page, "id", Str("")),
                          url |-> Get(page, "url", Str("")),
                          created |-> Get(page, "created_time", Str("")),
                          properties |-> props])

\* ------------------------------------------------------------------------
\* datetime: a datetime is [day |-> proleptic Gregorian ordinal (day 1 is
\* 0001-01-01), time |-> "HH:MM:SS.ffffff"]
\* ------------------------------------------------------------------------

\* dt - timedelta(days=days)
MinusDays(dt, days) == [day |-> dt.day - days, time |-> dt.time]

\* The civil date <<year, month, day>> of an ordinal.
CivilFromOrdinal(ordinal) ==
    LET z == ordinal + 305
        era == z \div 146097
        doe == z - era * 146097
        yoe == (doe - doe \div 1460 + doe \div 36524 - doe \div 146096) \div 365
        doy == doe - (365 * yoe + yoe \div 4 - yoe \div 100)
        mp == (5 * doy + 2) \div 153
        d == doy - (153 * mp + 2) \div 5 + 1
        m == IF mp < 10 THEN mp + 3 ELSE mp - 9
        y == yoe + era * 400 + (IF m <= 2 THEN 1 ELSE 0)
    IN <<y, m, d>>

\* datetime.isoformat(): "YYYY-MM-DDTHH:MM:SS.ffffff"
IsoFormat(dt) ==
    LET ymd == CivilFromOrdinal(dt.day)
    IN ZeroPad(ymd[1], 4) \o "-" \o ZeroPad(ymd[2], 2) \o "-"
           \o ZeroPad(ymd[3], 2) \o "T" \o dt.time

\* ------------------------------------------------------------------------
\* The service: configuration, one inbound request, the aggregation loops
\* and the pagination loop of the fetcher
\* ------------------------------------------------------------------------

VARIABLES
    environ,        \* the DATABASE_IDS environment variable: None when unset
    GEMINI_API_KEY, \* the GEMINI_API_KEY environment variable: None when unset
    DATABASE_IDS,   \* the configured collection ids, set once at import
    route,          \* the route of the inbound request ("" before it arrives)
    keyword,        \* /search: the keyword argument
    days,           \* /recent: the days argument
    pc,             \* where the request handler stands
    db_index,       \* position of the `for db_id in DATABASE_IDS` loops
    all_data,       \* get_all_data: the mapping built so far
    results,        \* search_databases: the hits so far
    recent,         \* get_recent_entries: the mapping built so far
    cutoff_date,    \* get_recent_entries: the cutoff string
    database_id,    \* get_all_database_entries: its argument
    all_results,    \* get_all_database_entries: the records accumulated
    has_more,       \* get_all_database_entries: the loop condition
    next_cursor,    \* get_all_database_entries: the continuation cursor
    sent,           \* the requests posted by the running fetch, in order
    received,       \* the remote's answers to them, in order
    scanned,        \* per finished fetch of this request: the collection, what
                    \* was returned, and whether the loop was left by break
    n_requests,     \* remote requests posted while serving this request
    response,       \* the route's answer
    page,           \* a raw record handed to the parser
    parsed,         \* what parse_notion_page made of it
    prop_value,     \* what get_property_value made of one of its properties
    user_message,   \* /chat: the message of the body
    calls,          \* /chat: the aggregation calls made, in order
    chat_response   \* /chat: the route's answer

configVars == <<environ, GEMINI_API_KEY, DATABASE_IDS>>

requestVars == <<route, keyword, days, pc, response>>

aggVars == <<db_index, all_data, results, recent, cutoff_date, scanned>>

fetchVars ==
    <<database_id, all_results, has_more, next_cursor, sent, received, n_requests>>

parseVars == <<page, parsed, prop_value>>

chatVars == <<user_message, calls, chat_response>>

vars == <<configVars, requestVars, aggVars, fetchVars, parseVars, chatVars>>

\* The longest page chain one fetch is served: the last page the remote may
\* serve is one that ends the loop.
MaxPages == 3

\* os.getenv("DATABASE_IDS", "")
GetEnv(value, default) == IF value.t = "null" THEN default ELSE value.v

\* DATABASE_IDS = os.getenv("DATABASE_IDS", "").split(",")
LoadDatabaseIds(value) == Split(GetEnv(value, ""), ",")

\* The values the DATABASE_IDS environment variable takes at startup.
Environments == {None, Str(""), Str("a"), Str("a,b")}

\* ---- what the remote holds and answers ---------------------------------

TitleProp(text) ==
    Dict([type |-> Str("title"),
          title |-> List(<<Dict([plain_text |-> Str(text)])>>)])

MultiSelectProp(names) ==
    Dict([type |-> Str("multi_select"),
          multi_select |-> List([i \in 1..Len(names) |-> Dict([name |-> Str(names[i])])])])

NullUrlProp == Dict([type |-> Str("url"), url |-> None])

Record1 ==
    [id |-> Str("p1"), url |-> Str("https://n/p1"),
     created_time |-> Str("2024-03-04T09:00:00.000Z"),
     properties |-> ODict(<< <<"Awards", TitleProp("Best Picture")>>,
                             <<"Link", NullUrlProp>> >>)]

Record2 ==
    [id |-> Str("p2"), url |-> Str("https://n/p2"),
     created_time |-> Str("2024-01-01T00:00:00.000Z"),
     properties |-> ODict(<< <<"Tags", MultiSelectProp(<<"a", "best">>)>> >>)]

Record3 == [id |-> Str("p3"), properties |-> ODict(<<>>)]

\* A field left out of a JSON object.
Absent == [t |-> "absent"]

\* The JSON object with the given fields, leaving out the absent ones.
Field(key, value) == IF value.t = "absent" THEN <<>> ELSE (key :> value)

\* The body of a page: {"results": ..., "has_more": ..., "next_cursor": ...}
Body(rs, more, cursor) ==
    Dict(Field("results", rs) @@ Field("has_more", more) @@ Field("next_cursor", cursor))

\* Pages that declare more data: with either cursor, and with a null one.
MoreBodies ==
    { Body(List(<<Record1>>), Bool(TRUE), Str("c1")),
      Body(List(<<Record2, Record3>>), Bool(TRUE), Str("c2")),
      Body(Absent, Bool(TRUE), None) }

\* Pages that declare no more data, has_more false or left out.
LastBodies ==
    { Body(List(<<Record1>>), Bool(FALSE), None),
      Body(List(<<Record2, Record3>>), Bool(FALSE), None),
      Body(List(<<Record1>>), Absent, Str("c2")),
      Body(Absent, Absent, Absent) }

PageBodies == MoreBodies \cup LastBodies

\* What one outbound call can come to: requests.post raises, or a response
\* whose status is 200 (body, or a body that is not JSON) or is not.
PostRaised == [kind |-> "exception"]

Response(status, body) == [kind |-> "response", status_code |-> status, json |-> body]

OkResponses == { Response(200, b) : b \in PageBodies }

ErrorBody == Dict([object |-> Str("error")])

NonOkResponses ==
    {Response(201, Body(List(<<Record1>>), Bool(TRUE), Str("c1"))),
     Response(500, ErrorBody)}

\* ---- the inputs of the routes --------------------------------------------

\* /search?keyword=...
Keywords == {"", "BEST", "awards"}

\* /recent?days=...
DayCounts == {1, 7}

\* datetime.now() when the request is served.
Now == [day |-> 738950, time |-> "12:00:00.000001"]

\* ---- get_all_database_entries -------------------------------------------

\* Faulty variant: all_results = data.get("results", [])
ExtendOverwrites(acc, data) == Get(data, "results", List(<<>>)).v

\* all_results.extend(data.get("results", []))
Extend(acc, data) == acc \o Get(data, "results", List(<<>>)).v

\* Faulty variant: has_more = False
NextHasMoreNever(data) == Bool(FALSE)

\* has_more = data.get("has_more", False)
NextHasMore(data) == Get(data, "has_more", Bool(FALSE))

\* next_cursor = data.get("next_cursor")
NextCursor(data) == Get(data, "next_cursor", None)

\* Faulty variant: payload = {}
PayloadWithoutCursor(cursor) == EmptyDict

\* payload = {}; if next_cursor: payload["start_cursor"] = next_cursor
Payload(cursor) == IF Truthy(cursor) THEN Dict([start_cursor |-> cursor]) ELSE EmptyDict

\* if response.status_code == 200
IsSuccess(resp) == resp.status_code = 200

\* The call of get_all_database_entries(db_id) by one of the three loops.
FetchStart ==
    /\ pc = "for"
    /\ db_index <= Len(DATABASE_IDS)
    /\ database_id' = DATABASE_IDS[db_index]
    /\ all_results' = <<>>
    /\ has_more' = Bool(TRUE)
    /\ next_cursor' = None
    /\ sent' = <<>>
    /\ received' = <<>>
    /\ pc' = "while"
    /\ UNCHANGED <<configVars, route, keyword, days, response, aggVars,
                   n_requests, parseVars, chatVars>>

\* `while has_more:` holds: the request is built and posted.
SendRequest ==
    /\ pc = "while"
    /\ Truthy(has_more)
    /\ sent' = Append(sent, [database_id |-> database_id, json |-> Payload(next_cursor)])
    /\ n_requests' = n_requests + 1
    /\ pc' = "post"
    /\ UNCHANGED <<configVars, route, keyword, days, response, aggVars,
                   database_id, all_results, has_more, next_cursor, received,
                   parseVars, chatVars>>

\* `while has_more:` fails: the loop is left.
WhileExit ==
    /\ pc = "while"
    /\ ~Truthy(has_more)
    /\ pc' = "return"
    /\ UNCHANGED <<configVars, route, keyword, days, response, aggVars,
                   fetchVars, parseVars, chatVars>>

\* Every response the remote can give to one request.
Responses == OkResponses \cup NonOkResponses \cup {Response(200, Raise)}

\* A 200 response whose body decodes: accumulate, take has_more and the cursor.
ReceivePage ==
    /\ pc = "post"
    /\ \E resp \in Responses :
        /\ IsSuccess(resp)
        /\ resp.json.t # "raise"
        /\ Truthy(NextHasMore(resp.json.v)) => Len(received) + 1 < MaxPages
        /\ received' = Append(received, resp)
        /\ all_results' = Extend(all_results, resp.json.v)
        /\ has_more' = NextHasMore(resp.json.v)
        /\ next_cursor' = NextCursor(resp.json.v)
    /\ pc' = "while"
    /\ UNCHANGED <<configVars, route, keyword, days, response, aggVars,
                   database_id, sent, n_requests, parseVars, chatVars>>

\* The route's `except Exception as e`: a 500 with the error's text.
ErrorResponse == [code |-> 500, body |-> [error |-> "exception"]]

\* Faulty variant: any other status: response.raise_for_status()
ReceiveFailureRaises ==
    /\ pc = "post"
    /\ \E resp \in Responses :
        /\ ~IsSuccess(resp)
        /\ received' = Append(received, resp)
    /\ response' = ErrorResponse
    /\ pc' = "done"
    /\ UNCHANGED <<configVars, route, keyword, days, aggVars,
                   database_id, all_results, has_more, next_cursor, sent,
                   n_requests, parseVars, chatVars>>

\* Any other status: break.
ReceiveFailure ==
    /\ pc = "post"
    /\ \E resp \in Responses :
        /\ ~IsSuccess(resp)
        /\ received' = Append(received, resp)
    /\ pc' = "return"
    /\ UNCHANGED <<configVars, route, keyword, days, response, aggVars,
                   database_id, all_results, has_more, next_cursor, sent,
                   n_requests, parseVars, chatVars>>

\* requests.post raises (no connection), or response.json() raises on a 200
\* whose body is not JSON: nothing in the fetcher or the aggregation catches
\* it, so it reaches the route's except clause.
CallRaises ==
    /\ pc = "post"
    /\ \E resp \in Responses \cup {PostRaised} :
        /\ \/ resp.kind = "exception"
           \/ resp.kind = "response" /\ IsSuccess(resp) /\ resp.json.t = "raise"
        /\ received' = Append(received, resp)
    /\ response' = ErrorResponse
    /\ pc' = "done"
    /\ UNCHANGED <<configVars, route, keyword, days, aggVars,
                   database_id, all_results, has_more, next_cursor, sent,
                   n_requests, parseVars, chatVars>>

\* ---- the aggregation engine ---------------------------------------------

\* d[key] = value on the contents of an ordered dict.
OSet(od, key, value) ==
    IF \E i \in 1..Len(od) : od[i][1] = key
    THEN [i \in 1..Len(od) |-> IF od[i][1] = key THEN <<key, value>> ELSE od[i]]
    ELSE Append(od, <<key, value>>)

\* [parse_notion_page(entry) for entry in entries]
ParseAll(entries) ==
    LET out == [i \in 1..Len(entries) |-> parse_notion_page(entries[i])]
    IN IF \E i \in 1..Len(out) : out[i].t = "raise" THEN Raise ELSE List(out)

\* Faulty variant: keyword in json.dumps(parsed["properties"])
KeywordMatchesCase(kw, parsed_entry) == Contains(kw, Dumps(parsed_entry.v.properties))

\* keyword.lower() in json.dumps(parsed["properties"]).lower()
KeywordMatches(kw, parsed_entry) ==
    Contains(Lower(kw), Lower(Dumps(parsed_entry.v.properties)))

\* search_databases: the body of the loop over one collection's entries.
RECURSIVE SearchEntries(_, _, _, _)
SearchEntries(entries, db_id, kw, hits) ==
    IF entries = <<>> THEN List(hits)
    ELSE LET parsed_entry == parse_notion_page(Head(entries))
         IN IF parsed_entry.t = "raise" THEN Raise
            ELSE SearchEntries(Tail(entries), db_id, kw,
                     IF KeywordMatches(kw, parsed_entry)
                     THEN Append(hits, [database_id |-> db_id, entry |-> parsed_entry])
                     ELSE hits)

\* entry.get("created_time", "") >= cutoff_date
IsRecent(entry, cutoff) == StrGE(Get(entry, "created_time", Str("")).v, cutoff)

\* get_recent_entries: the body of the loop over one collection's entries;
\* comparing a created_time that is no string with the cutoff raises.
RECURSIVE RecentEntries(_, _, _)
RecentEntries(entries, cutoff, kept) ==
    IF entries = <<>> THEN List(kept)
    ELSE IF Get(Head(entries), "created_time", Str("")).t # "str" THEN Raise
    ELSE IF ~IsRecent(Head(entries), cutoff)
    THEN RecentEntries(Tail(entries), cutoff, kept)
    ELSE LET parsed_entry == parse_notion_page(Head(entries))
         IN IF parsed_entry.t = "raise" THEN Raise
            ELSE RecentEntries(Tail(entries), cutoff, Append(kept, parsed_entry))

\* Faulty variant: recent[db_id] = recent_entries
PutRecentAlways(mapping, db_id, recent_entries) == OSet(mapping, db_id, recent_entries)

\* if recent_entries: recent[db_id] = recent_entries
PutRecent(mapping, db_id, recent_entries) ==
    IF Truthy(recent_entries) THEN OSet(mapping, db_id, recent_entries) ELSE mapping

\* all_data[f"database_{i}"] = {"database_id": ..., "entries": ..., "count": ...}
PutAllData(mapping, i, db_id, parsed_entries) ==
    OSet(mapping, "database_" \o Decimal(i),
         [database_id |-> db_id, entries |-> parsed_entries,
          count |-> Len(parsed_entries.v)])

\* What the loop body of the running mode makes of the fetched entries:
\* the new accumulator, or Raise.
LoopBody(entries) ==
    IF route = "status" THEN
        LET parsed_entries == ParseAll(entries)
        IN IF parsed_entries.t = "raise" THEN Raise
           ELSE ODict(PutAllData(all_data, db_index, database_id, parsed_entries))
    ELSE IF route = "search" THEN SearchEntries(entries, database_id, keyword, results)
    ELSE LET recent_entries == RecentEntries(entries, cutoff_date, <<>>)
         IN IF recent_entries.t = "raise" THEN Raise
            ELSE ODict(PutRecent(recent, database_id, recent_entries))

\* get_all_database_entries returns all_results and the loop body of the
\* calling mode runs on them: the for loop moves on, or parse_notion_page
\* raised and the route's except clause answers.
FetchReturn ==
    /\ pc = "return"
    /\ LET out == LoopBody(all_results)
       IN IF out.t = "raise"
          THEN /\ response' = ErrorResponse
               /\ pc' = "done"
               /\ UNCHANGED aggVars
          ELSE /\ all_data' = IF route = "status" THEN out.v ELSE all_data
               /\ results' = IF route = "search" THEN out.v ELSE results
               /\ recent' = IF route = "recent" THEN out.v ELSE recent
               /\ scanned' = Append(scanned, [database_id |-> database_id,
                                              entries |-> all_results,
                                              aborted |-> Truthy(has_more)])
               /\ db_index' = db_index + 1
               /\ pc' = "for"
               /\ UNCHANGED <<response, cutoff_date>>
    /\ UNCHANGED <<configVars, route, keyword, days, fetchVars, parseVars, chatVars>>

\* ---- the routes -----------------------------------------------------------

RECURSIVE SumCounts(_)
SumCounts(mapping) ==
    IF mapping = <<>> THEN 0 ELSE Head(mapping)[2].count + SumCounts(Tail(mapping))

RECURSIVE SumLens(_)
SumLens(mapping) ==
    IF mapping = <<>> THEN 0 ELSE Len(Head(mapping)[2].v) + SumLens(Tail(mapping))

\* results[:n]
Prefix(seq, n) == SubSeq(seq, 1, IF Len(seq) < n THEN Len(seq) ELSE n)

StatusBody ==
    [status |-> "success", notion_connected |-> TRUE,
     gemini_configured |-> GEMINI_API_KEY.t # "null",
     databases |-> Len(all_data), total_entries |-> SumCounts(all_data)]

SearchBody ==
    [keyword |-> keyword, matches |-> Len(results), results |-> Prefix(results, 10)]

RecentBody ==
    [days |-> days, total_entries |-> SumLens(recent),
     by_database |-> [i \in 1..Len(recent) |-> <<recent[i][1], Len(recent[i][2].v)>>],
     data |-> recent]

\* GET /status
Status ==
    /\ pc = "idle"
    /\ route' = "status"
    /\ all_data' = <<>>
    /\ db_index' = 1
    /\ pc' = "for"
    /\ UNCHANGED <<configVars, keyword, days, response, results, recent,
                   cutoff_date, scanned, fetchVars, parseVars, chatVars>>

\* GET /search?keyword=...
Search ==
    /\ pc = "idle"
    /\ \E kw \in Keywords :
        /\ keyword' = kw
        /\ IF kw = ""
           THEN /\ response' = [code |-> 400,
                                body |-> [error |-> "Please provide a 'keyword' parameter"]]
                /\ pc' = "done"
           ELSE /\ response' = response
                /\ pc' = "for"
    /\ route' = "search"
    /\ results' = <<>>
    /\ db_index' = 1
    /\ UNCHANGED <<configVars, days, all_data, recent, cutoff_date, scanned,
                   fetchVars, parseVars, chatVars>>

\* GET /recent?days=...
Recent ==
    /\ pc = "idle"
    /\ \E d \in DayCounts :
        /\ days' = d
        /\ cutoff_date' = IsoFormat(MinusDays(Now, d))
    /\ route' = "recent"
    /\ recent' = <<>>
    /\ db_index' = 1
    /\ pc' = "for"
    /\ UNCHANGED <<configVars, keyword, response, all_data, results, scanned,
                   fetchVars, parseVars, chatVars>>

\* The for loop of the running mode is over: the route answers.
Respond ==
    /\ pc = "for"
    /\ db_index > Len(DATABASE_IDS)
    /\ response' = [code |-> 200,
                    body |-> IF route = "status" THEN StatusBody
                             ELSE IF route = "search" THEN SearchBody
                             ELSE RecentBody]
    /\ pc' = "done"
    /\ UNCHANGED <<configVars, route, keyword, days, aggVars, fetchVars,
                   parseVars, chatVars>>

NoResponse == [code |-> 0, body |-> <<>>]

\* Not computed yet.
Pending == [t |-> "pending"]

\* No request is being served: the handler's locals hold nothing.
Idle ==
    /\ route = ""
    /\ keyword = ""
    /\ days = 7
    /\ pc = "idle"
    /\ response = NoResponse
    /\ db_index = 1
    /\ all_data = <<>>
    /\ results = <<>>
    /\ recent = <<>>
    /\ cutoff_date = ""
    /\ scanned = <<>>
    /\ database_id = ""
    /\ all_results = <<>>
    /\ has_more = Bool(TRUE)
    /\ next_cursor = None
    /\ sent = <<>>
    /\ received = <<>>
    /\ n_requests = 0
    /\ user_message = None
    /\ calls = <<>>
    /\ chat_response = NoResponse

\* The service after import: the configuration is read, no request yet.
Init ==
    /\ environ \in Environments
    /\ DATABASE_IDS = LoadDatabaseIds(environ)
    /\ GEMINI_API_KEY = Str("key")
    /\ Idle
    /\ page = <<>>
    /\ parsed = Pending
    /\ prop_value = Pending

Next ==
    \/ Status
    \/ Search
    \/ Recent
    \/ FetchStart
    \/ SendRequest
    \/ WhileExit
    \/ ReceivePage
    \/ ReceiveFailure
    \/ CallRaises
    \/ FetchReturn
    \/ Respond

Spec == Init /\ [][Next]_vars

\* ------------------------------------------------------------------------
\* The normalizer and the parser on their own: every payload shape of every
\* type-tag, and raw records of up to MaxProps properties
\* ------------------------------------------------------------------------

MaxProps == 2

Run(text) == Dict([plain_text |-> Str(text)])

\* The payloads of one property: every recognized type-tag with its field
\* absent, null, empty and filled, with and without the nested field; and
\* payloads with a missing, null, empty or unrecognized type-tag.
TypedPayloads(tag, values) ==
    { Dict(("type" :> Str(tag)) @@ Field(tag, x)) : x \in values \cup {Absent, None} }

TitlePayloads ==
    TypedPayloads("title", {List(<<>>), List(<<Run("A")>>), List(<<Run("A"), Run("b")>>),
                            List(<<EmptyDict>>), List(<<Dict([plain_text |-> None])>>)})

RichTextPayloads ==
    TypedPayloads("rich_text", {List(<<>>), List(<<Run("A")>>),
                                List(<<Run("A"), EmptyDict>>)})

UrlPayloads == TypedPayloads("url", {Str(""), Str("https://x")})

DatePayloads ==
    TypedPayloads("date", {Dict([start |-> Str("2024-01-01")]),
                           Dict([end |-> Str("2024-01-02")])})

SelectPayloads ==
    TypedPayloads("select", {Dict([name |-> Str("Film")]), Dict([color |-> Str("red")])})

MultiSelectPayloads ==
    TypedPayloads("multi_select", {List(<<>>), List(<<Dict([name |-> Str("a")])>>),
                                   List(<<Dict([name |-> Str("a")]),
                                          Dict([color |-> Str("red")])>>)})

UntypedPayloads ==
    { EmptyDict, Dict([type |-> None]), Dict([type |-> Str("")]),
      Dict([type |-> Str("number"), number |-> Str("7")]),
      Dict([title |-> List(<<Run("A")>>)]) }

PropPayloads ==
    TitlePayloads \cup RichTextPayloads \cup UrlPayloads \cup DatePayloads
        \cup SelectPayloads \cup MultiSelectPayloads \cup UntypedPayloads

\* The payloads the raw records are built from: one of each outcome of the
\* normalizer (null, "", a string, [], a list, a list of "", an exception).
RecordPayloads ==
    { Dict([type |-> Str("number"), number |-> Str("7")]),
      Dict([type |-> Str("title"), title |-> List(<<>>)]),
      Dict([type |-> Str("title"), title |-> List(<<Run("A")>>)]),
      Dict([type |-> Str("url"), url |-> None]),
      Dict([type |-> Str("multi_select"), multi_select |-> List(<<>>)]),
      Dict([type |-> Str("multi_select"), multi_select |-> List(<<Dict([name |-> Str("a")])>>)]),
      Dict([type |-> Str("multi_select"), multi_select |-> List(<<EmptyDict>>)]),
      Dict([type |-> Str("rich_text"), rich_text |-> None]) }

PropNames == <<"P", "Q", "R", "S">>

\* The properties mappings of up to MaxProps properties, named in order.
PropertyMaps ==
    UNION { { ODict([i \in 1..n |-> <<PropNames[i], f[i]>>]) : f \in [1..n -> RecordPayloads] } :
            n \in 0..MaxProps }

\* The raw records: with and without the top-level fields.
RawPages ==
    { [id |-> Str("p1"), url |-> Str("https://n/p1"),
       created_time |-> Str("2024-03-04T09:00:00.000Z"), properties |-> ps] :
        ps \in PropertyMaps }
    \cup { [properties |-> ps] : ps \in PropertyMaps }
    \cup { [id |-> Str("p1")], [id |-> Str("p1"), properties |-> None] }

InitParse ==
    /\ environ = None
    /\ DATABASE_IDS = LoadDatabaseIds(environ)
    /\ GEMINI_API_KEY = None
    /\ Idle
    /\ page \in RawPages
    /\ parsed = Pending
    /\ prop_value = Pending

\* get_property_value(properties, property_name) on one payload, under the
\* name it has or under a name the mapping does not have.
Normalize ==
    /\ prop_value = Pending
    /\ \E payload \in PropPayloads, name \in {"P", "Q"} :
        prop_value' = [payload |-> payload, name |-> name,
                       value |-> get_property_value(<< <<"P", payload>> >>, name)]
    /\ UNCHANGED <<configVars, requestVars, aggVars, fetchVars, page, parsed, chatVars>>

\* parse_notion_page(page)
Parse ==
    /\ parsed = Pending
    /\ parsed' = parse_notion_page(page)
    /\ UNCHANGED <<configVars, requestVars, aggVars, fetchVars, page, prop_value, chatVars>>

NextParse == Normalize \/ Parse

SpecParse == InitParse /\ [][NextParse]_vars

\* ------------------------------------------------------------------------
\* POST /chat: the intent detection on the message
\* ------------------------------------------------------------------------

MaxWords == 3

Vocabulary ==
    <<"Search", "find", "About", "Recently", "latest", "week", "month",
      "show", "me", "what", "Oscars", "researched">>

RECURSIVE JoinWords(_)
JoinWords(ws) ==
    IF ws = <<>> THEN ""
    ELSE IF Len(ws) = 1 THEN Head(ws)
    ELSE Head(ws) \o " " \o JoinWords(Tail(ws))

\* The messages of up to MaxWords words of the vocabulary.
Messages ==
    UNION { { JoinWords([i \in 1..n |-> Vocabulary[f[i]]]) :
                f \in [1..n -> 1..Len(Vocabulary)] } : n \in 0..MaxWords }

\* search_keywords = ['search', 'find', 'recent', 'latest', 'show me', 'what']
search_keywords == <<"search", "find", "recent", "latest", "show me", "what">>

\* Faulty variant: should_fetch_data = True
AlwaysFetch(lowered) == TRUE

\* any(keyword in user_message.lower() for keyword in search_keywords)
should_fetch_data(lowered) ==
    \E k \in 1..Len(search_keywords) : Contains(search_keywords[k], lowered)

\* 'recent' in user_message.lower() or 'latest' in user_message.lower()
WantsRecent(lowered) == Contains("recent", lowered) \/ Contains("latest", lowered)

\* days = 7; if 'week' in ...: days = 7; elif 'month' in ...: days = 30
RecentDays(lowered) ==
    IF Contains("week", lowered) THEN 7
    ELSE IF Contains("month", lowered) THEN 30
    ELSE 7

\* word.lower() in ['search', 'find', 'about'] and i + 1 < len(words)
\* (i counts from 0 there and from 1 here)
IsTrigger(words, i) ==
    Lower(words[i]) \in {"search", "find", "about"} /\ i + 1 <= Len(words)

\* The loop over enumerate(words): the word after the first trigger, or None.
RECURSIVE SearchTermFrom(_, _)
SearchTermFrom(words, i) ==
    IF i > Len(words) THEN None
    ELSE IF IsTrigger(words, i) THEN Str(words[i + 1])
    ELSE SearchTermFrom(words, i + 1)

\* The aggregation call the message leads to, if any.
NoCall == [fn |-> "", days |-> 0, term |-> ""]

DetectIntent(message) ==
    LET lowered == Lower(message)
    IN IF ~should_fetch_data(lowered) THEN NoCall
       ELSE IF WantsRecent(lowered)
       THEN [fn |-> "get_recent_entries", days |-> RecentDays(lowered), term |-> ""]
       ELSE LET search_term == SearchTermFrom(Words(message), 1)
            IN IF search_term.t = "null" THEN NoCall
               ELSE [fn |-> "search_databases", days |-> 0, term |-> search_term.v]

\* notion_context: "" when no call was made, else the f-string around the
\* compressed data, whatever that is.
NotionContext(call, compressed) ==
    IF call.fn = "get_recent_entries"
    THEN "\n\nRecent data (last " \o Decimal(call.days) \o " days):\n" \o compressed
    ELSE IF call.fn = "search_databases"
    THEN "\n\nSearch results for '" \o call.term \o "':\n" \o compressed
    ELSE ""

\* What create_notion_context returns: "" for an empty mapping, text otherwise.
Compressed == {"", "[]"}

InitChat ==
    /\ environ = Str("a")
    /\ DATABASE_IDS = LoadDatabaseIds(environ)
    /\ GEMINI_API_KEY \in {None, Str(""), Str("key")}
    /\ Idle
    /\ page = <<>>
    /\ parsed = Pending
    /\ prop_value = Pending

\* OPTIONS /chat: the preflight.
ChatPreflight ==
    /\ chat_response = NoResponse
    /\ chat_response' = [code |-> 204, body |-> <<>>]
    /\ UNCHANGED <<configVars, requestVars, aggVars, fetchVars, parseVars,
                   user_message, calls>>

\* POST /chat with no generation credential.
ChatUnconfigured ==
    /\ chat_response = NoResponse
    /\ ~Truthy(GEMINI_API_KEY)
    /\ chat_response' = [code |-> 500, body |-> [error |-> "GEMINI_API_KEY not configured"]]
    /\ UNCHANGED <<configVars, requestVars, aggVars, fetchVars, parseVars,
                   user_message, calls>>

\* POST /chat with no JSON body, or a body without 'message'.
ChatNoMessage ==
    /\ chat_response = NoResponse
    /\ Truthy(GEMINI_API_KEY)
    /\ chat_response' = [code |-> 400,
                         body |-> [error |-> "Please provide a 'message' in JSON body"]]
    /\ UNCHANGED <<configVars, requestVars, aggVars, fetchVars, parseVars,
                   user_message, calls>>

\* POST /chat with a message: the intent is detected, the aggregation call it
\* names is made (and returns or raises), the prompt is generated from (or the
\* generation raises), and the route answers.
Chat ==
    /\ chat_response = NoResponse
    /\ Truthy(GEMINI_API_KEY)
    /\ \E message \in Messages :
        LET call == DetectIntent(message)
        IN \E compressed \in Compressed, call_raises \in BOOLEAN,
              generate_raises \in BOOLEAN :
            /\ user_message' = Str(message)
            /\ calls' = IF call.fn = "" THEN <<>> ELSE <<call>>
            /\ call.fn = "" => ~call_raises /\ compressed = ""
            /\ chat_response' =
                  IF call_raises \/ generate_raises THEN ErrorResponse
                  ELSE [code |-> 200,
                        body |-> [message |-> message, response |-> "text",
                                  used_notion_data |->
                                      NotionContext(call, compressed) # ""]]
    /\ UNCHANGED <<configVars, requestVars, aggVars, fetchVars, parseVars>>

NextChat == ChatPreflight \/ ChatUnconfigured \/ ChatNoMessage \/ Chat

SpecChat == InitChat /\ [][NextChat]_vars

\* ------------------------------------------------------------------------
\* Properties of the fetcher
\* ------------------------------------------------------------------------

Last(seq) == seq[Len(seq)]

\* The page answered with status 200.
Status200(resp) == resp.kind = "response" /\ resp.status_code = 200

\* The page answered with a 2xx status.
Status2xx(resp) ==
    resp.kind = "response" /\ resp.status_code >= 200 /\ resp.status_code <= 299

\* The page's body declares more data.
DeclaresMore(resp) ==
    /\ resp.kind = "response"
    /\ resp.json.t = "dict"
    /\ "has_more" \in DOMAIN resp.json.v
    /\ resp.json.v["has_more"] = Bool(TRUE)

\* The records of the page's body.
ResultsOf(resp) ==
    IF "results" \in DOMAIN resp.json.v THEN resp.json.v["results"].v ELSE <<>>

\* The page ends the pagination: it failed, or it declares no more data.
EndsFetch(resp) == ~Status200(resp) \/ ~DeclaresMore(resp)

\* The results of the status-200 pages among the first k, in page order.
RECURSIVE ConcatResults(_, _)
ConcatResults(pages, k) ==
    IF k = 0 THEN <<>>
    ELSE ConcatResults(pages, k - 1)
             \o (IF Status200(pages[k]) THEN ResultsOf(pages[k]) ELSE <<>>)

RECURSIVE SumResultLens(_, _)
SumResultLens(pages, k) ==
    IF k = 0 THEN 0
    ELSE SumResultLens(pages, k - 1)
             + (IF Status200(pages[k]) THEN Len(ResultsOf(pages[k])) ELSE 0)

\* C1: when get_all_database_entries returns, what it returns is the
\* concatenation, in page order, of the results of the status-200 pages it was
\* served up to and including the first one that declares no more data, or up
\* to but excluding the first page with another status; its length is the sum
\* of those pages' results lengths.
C1_ReturnsConcatenationOfPages ==
    pc = "return" =>
        \E k \in 1..Len(received) :
            /\ EndsFetch(received[k])
            /\ \A j \in 1..(k - 1) : ~EndsFetch(received[j])
            /\ all_results = ConcatResults(received, k)
            /\ Len(all_results) = SumResultLens(received, k)

\* A fetch of three pages, the third failing, returns the records of the
\* first two.
C1_Witness ==
    /\ pc = "return"
    /\ Len(received) = 3
    /\ ~Status200(received[3])
    /\ Len(all_results) = 3

\* The fetcher stands at the head of its loop with the loop condition true:
\* the next thing it does is post a request.
AboutToRequest == pc = "while" /\ Truthy(has_more)

\* After the k-th page the fetcher went on: it posted a further request, or
\* is about to, and the page's records are the last ones accumulated when
\* the page is the last one received.
WentOnAfter(k) ==
    /\ k < Len(sent) \/ (k = Len(sent) /\ AboutToRequest)
    /\ k = Len(received) /\ pc = "while" =>
           SubSeq(all_results, Len(all_results) - Len(ResultsOf(received[k])) + 1,
                  Len(all_results)) = ResultsOf(received[k])

\* C2 as stated: after every page answered with a 2xx status that declares
\* more data, the records are accumulated and a further request is issued.
C2_ContinuesAfterAny2xxPage ==
    \A k \in 1..Len(received) :
        Status2xx(received[k]) /\ DeclaresMore(received[k]) => WentOnAfter(k)

\* C2: after every page answered with status 200 that declares more data, the
\* records are accumulated and a further request is issued: pagination is
\* never ended after such a page.
C2_ContinuesAfterStatus200Page ==
    \A k \in 1..Len(received) :
        Status200(received[k]) /\ DeclaresMore(received[k]) => WentOnAfter(k)

\* A second request was posted after a first page that declares more data.
C2_Witness ==
    /\ pc = "post"
    /\ Len(sent) = 2
    /\ Status200(received[1]) /\ DeclaresMore(received[1])
    /\ all_results # <<>>

\* The cursor a response hands on: null when the body has none.
CursorOf(resp) ==
    IF "next_cursor" \in DOMAIN resp.json.v THEN resp.json.v["next_cursor"] ELSE None

CallFailed(resp) ==
    resp.kind = "exception" \/ (Status200(resp) /\ resp.json.t = "raise")

\* A page came back with a status other than 200.
PageFailed(resp) == resp.kind = "response" /\ resp.status_code # 200

\* Every configured collection was scanned, in the configured order.
ScannedAll ==
    /\ Len(scanned) = Len(DATABASE_IDS)
    /\ \A i \in 1..Len(scanned) : scanned[i].database_id = DATABASE_IDS[i]

\* The request was served through one of the three modes.
Served == pc = "done" /\ response.code # 400

RECURSIVE HitsOf(_, _, _)
HitsOf(entries, db, kw) ==
    IF entries = <<>> THEN <<>>
    ELSE LET e == parse_notion_page(Head(entries))
             text == Lower(Dumps(e.v.properties))
         IN (IF Contains(Lower(kw), text)
             THEN <<[database_id |-> db, entry |-> e]>> ELSE <<>>)
                \o HitsOf(Tail(entries), db, kw)

RECURSIVE AllHits(_, _)
AllHits(scans, kw) ==
    IF scans = <<>> THEN <<>>
    ELSE HitsOf(Head(scans).entries, Head(scans).database_id, kw)
             \o AllHits(Tail(scans), kw)

\* C6: search_databases returns the fetched records whose lower-cased
\* serialized properties contain the lower-cased term, as one flat sequence in
\* collection order and then remote order, each tagged with its collection.
C6_SearchReturnsMatchesInOrder ==
    route = "search" /\ pc = "done" /\ response.code = 200 =>
        /\ ScannedAll
        /\ results = AllHits(scanned, keyword)
        /\ response.body.matches = Len(results)

\* A search in upper case over two collections: hits from both, in order,
\* and a fetched record that is no hit.
C6_Witness ==
    /\ route = "search" /\ pc = "done" /\ response.code = 200
    /\ keyword = "BEST"
    /\ Len(results) >= 2
    /\ results[1].database_id = "a"
    /\ Last(results).database_id = "b"
    /\ Len(results) < Len(scanned[1].entries) + Len(scanned[2].entries)

\* The cutoff string of `days` days before Now.
ExpectedCutoff(d) ==
    IF d = 1 THEN "2024-03-04T12:00:00.000001" ELSE "2024-02-27T12:00:00.000001"

\* The raw records of `entries` created at or after the cutoff, parsed.
RECURSIVE QualifyingOf(_, _)
QualifyingOf(entries, cutoff) ==
    IF entries = <<>> THEN <<>>
    ELSE (IF "created_time" \in DOMAIN Head(entries)
             /\ ~StrLess(Head(entries)["created_time"].v, cutoff)
          THEN <<parse_notion_page(Head(entries))>> ELSE <<>>)
             \o QualifyingOf(Tail(entries), cutoff)

RECURSIVE RecentBuckets(_, _)
RecentBuckets(scans, cutoff) ==
    IF scans = <<>> THEN <<>>
    ELSE (IF QualifyingOf(Head(scans).entries, cutoff) # <<>>
          THEN << <<Head(scans).database_id,
                    List(QualifyingOf(Head(scans).entries, cutoff))>> >>
          ELSE <<>>)
             \o RecentBuckets(Tail(scans), cutoff)

\* C7: get_recent_entries returns a mapping whose keys are the configured
\* collections with at least one fetched record created at or after the
\* cutoff string (compared as strings), each mapped to the parsed form of
\* those records in remote order; no key maps to an empty sequence.
C7_RecentBucketsExact ==
    route = "recent" /\ pc = "done" /\ response.code = 200 =>
        /\ ScannedAll
        /\ cutoff_date = ExpectedCutoff(days)
        /\ recent = RecentBuckets(scanned, ExpectedCutoff(days))
        /\ \A i \in 1..Len(recent) : recent[i][2].v # <<>>

\* Two collections with fetched records, one of them with none in the
\* window: it has no key.
C7_Witness ==
    /\ route = "recent" /\ pc = "done" /\ response.code = 200
    /\ Len(scanned) = 2
    /\ scanned[1].entries # <<>>
    /\ scanned[2].entries # <<>>
    /\ Len(recent) = 1
    /\ recent[1][1] = "b"
    /\ Len(recent[1][2].v) < Len(scanned[2].entries)

\* C8 as stated: with DATABASE_IDS unset or empty no remote request is
\* issued and /status reports no database.
C8_NoCollectionNoRequest ==
    environ \in {None, Str("")} =>
        /\ n_requests = 0
        /\ route = "status" /\ pc = "done" =>
               response.code = 200 /\ response.body.databases = 0
                   /\ response.body.total_entries = 0

\* ------------------------------------------------------------------------
\* Properties of the normalizer and the parser
\* ------------------------------------------------------------------------

\* The value is null, the empty string or the empty list.
IsEmptyValue(x) ==
    \/ x.t = "null"
    \/ x.t = "str" /\ x.v = ""
    \/ x.t = "list" /\ x.v = <<>>

\* The raw record's field, or the empty string when it has none.
FieldOrEmpty(raw, field) == IF field \in DOMAIN raw THEN raw[field] ELSE Str("")

\* The raw record's properties, or none when it has no such field.
RawProperties(raw) == IF "properties" \in DOMAIN raw THEN raw["properties"].v ELSE <<>>

\* C4: the properties of a parsed record have an entry for a property name
\* exactly when the property's normalized value is not null, not "" and not
\* []; the entry holds that value, so no entry is null, "" or []; id, url and
\* created are the raw record's fields, "" when it has none.
C4_ParsedPropertiesAreTheNonEmptyOnes ==
    parsed.t = "dict" =>
        LET raw == RawProperties(page)
            out == parsed.v.properties.v
        IN /\ \A i \in 1..Len(raw) :
                  LET value == get_property_value(raw, raw[i][1])
                  IN /\ (\E j \in 1..Len(out) : out[j][1] = raw[i][1])
                            <=> ~IsEmptyValue(value)
                     /\ \A j \in 1..Len(out) : out[j][1] = raw[i][1] => out[j][2] = value
           /\ \A j \in 1..Len(out) :
                  /\ ~IsEmptyValue(out[j][2])
                  /\ \E i \in 1..Len(raw) : raw[i][1] = out[j][1]
           /\ parsed.v.id = FieldOrEmpty(page, "id")
           /\ parsed.v.url = FieldOrEmpty(page, "url")
           /\ parsed.v.created = FieldOrEmpty(page, "created_time")

\* A record of two properties and no id: the first is dropped, the second is
\* kept, the id is "".
C4_Witness ==
    /\ parsed.t = "dict"
    /\ Len(RawProperties(page)) = 2
    /\ Len(parsed.v.properties.v) = 1
    /\ parsed.v.properties.v[1][1] = "Q"
    /\ "id" \notin DOMAIN page
    /\ parsed.v.id = Str("")

\* The type-tag of a payload, "" when it has none that is a string.
TagOf(payload) ==
    IF "type" \in DOMAIN payload.v /\ payload.v["type"].t = "str"
    THEN payload.v["type"].v ELSE ""

\* C5 as stated: get_property_value never raises; it returns a string for
\* title, rich_text, url, date and select, a list of strings for multi_select,
\* and null for any other or missing type-tag, whatever the payload, its
\* type-specific field missing or null included.
C5_NormalizerIsTotal ==
    prop_value # Pending =>
        LET tag == IF prop_value.name = "P" THEN TagOf(prop_value.payload) ELSE ""
            value == prop_value.value
        IN /\ value.t # "raise"
           /\ tag \in {"title", "rich_text", "url", "date", "select"} => value.t = "str"
           /\ tag = "multi_select" =>
                  value.t = "list" /\ \A i \in 1..Len(value.v) : value.v[i].t = "str"
           /\ tag \notin {"title", "rich_text", "url", "date", "select", "multi_select"} =>
                  value.t = "null"

\* ------------------------------------------------------------------------
\* Properties of the chat route's intent detection
\* ------------------------------------------------------------------------

\* The k-th token of the message is search, find or about in any case and
\* another token follows it.
TriggerAt(tokens, k) ==
    /\ k < Len(tokens)
    /\ Lower(tokens[k]) \in {"search", "find", "about"}

\* The token after the first trigger.
TermAfterFirstTrigger(tokens) ==
    tokens[(CHOOSE k \in 1..Len(tokens) :
                TriggerAt(tokens, k) /\ \A j \in 1..(k - 1) : ~TriggerAt(tokens, j)) + 1]

\* The message asks for recent data.
MentionsRecency(text) == Contains("recent", text) \/ Contains("latest", text)

\* The window of the recency mode.
WindowOf(text) ==
    IF Contains("month", text) /\ ~Contains("week", text) THEN 30 ELSE 7

\* The calls and the flag of the answer, given whether the search branch is
\* taken.
IntentIs(searches) ==
    LET text == Lower(user_message.v)
        tokens == Words(user_message.v)
    IN IF MentionsRecency(text)
       THEN calls = <<[fn |-> "get_recent_entries", days |-> WindowOf(text), term |-> ""]>>
       ELSE IF searches
       THEN /\ calls = <<[fn |-> "search_databases", days |-> 0,
                          term |-> TermAfterFirstTrigger(tokens)]>>
            /\ chat_response.code = 200 => chat_response.body.used_notion_data
       ELSE /\ calls = <<>>
            /\ chat_response.code = 200 => ~chat_response.body.used_notion_data

\* C9 as stated: recency first; otherwise a token search, find or about
\* followed by another token leads to a keyword search on the token after the
\* first such trigger; otherwise no aggregation call.
C9_TriggerTokenAloneSearches ==
    user_message.t = "str" =>
        IntentIs(\E k \in 1..Len(Words(user_message.v)) :
                     TriggerAt(Words(user_message.v), k))

\* The message contains search, find, show me or what, in any case.
MentionsQuery(text) ==
    \E word \in {"search", "find", "show me", "what"} : Contains(word, text)

\* C9: recency first; otherwise, when the message contains search, find,
\* show me or what (in any case, anywhere) and has a token search, find or
\* about followed by another token, a keyword search is made on the token
\* after the first such trigger and used_notion_data is true; otherwise no
\* aggregation call is made and used_notion_data is false.
C9_TriggerTokenSearchesWhenQueryWord ==
    user_message.t = "str" =>
        IntentIs(/\ MentionsQuery(Lower(user_message.v))
                 /\ \E k \in 1..Len(Words(user_message.v)) :
                        TriggerAt(Words(user_message.v), k))

\* "what About Oscars": the query word lets the trigger About search Oscars.
C9_Witness ==
    /\ user_message = Str("what About Oscars")
    /\ calls = <<[fn |-> "search_databases", days |-> 0, term |-> "Oscars"]>>
    /\ chat_response.code = 200
    /\ chat_response.body.used_notion_data

=============================================================================
